---- MODULE Spec2Model ----
(***************************************************************************)
(* Model of sammba/io_conversions/bruker_dicom.py: the conversion of one   *)
(* Bruker enhanced multiframe DICOM file to NIfTI (dcm_to_nii), two such   *)
(* conversions run side by side on one file system, and the recursive      *)
(* batch traversal (recursive_dcm_to_nii).                                 *)
(*                                                                         *)
(* Conventions.  A Python local that may be unbound is a sequence: <<>>    *)
(* when no assignment reached it, <<v>> when it holds v.  A Python str is  *)
(* [t |-> "str", v |-> <<characters>>], a list of str is                   *)
(* [t |-> "list", v |-> <<str, ...>>].  The text of a dump line is         *)
(* modelled after tag recognition and value decoding (lines 179-192): a    *)
(* line is [tag, vals], vals the decoded value.  Floating point values are *)
(* exact rationals [n, d].  A raised Python exception is a record          *)
(* [kind, name, line] kept in err; the conversion then stops.              *)
(***************************************************************************)
EXTENDS Integers, Sequences, FiniteSets, TLC

(* ------------------------------ bounds ------------------------------- *)
MaxFrames == 4
MaxAnyLen == 3
MaxSlices == 3
MaxDim == 2
MaxOptLen == 3
MaxFiles == 3

(* --------------------------- Python values --------------------------- *)
Unbound == <<>>
Bind(v) == <<v>>
IsBound(x) == x # <<>>
Val(x) == x[1]

PyStr(chars) == [t |-> "str", v |-> chars]
PyList(items) == [t |-> "list", v |-> items]

NoErr == <<>>
Raise(kind, name, line) == <<[kind |-> kind, name |-> name, line |-> line]>>

(* exact rationals, kept in lowest terms with a positive denominator *)
RECURSIVE Gcd(_, _)
Gcd(a, b) == IF b = 0 THEN a ELSE Gcd(b, a % b)
Abs(x) == IF x < 0 THEN -x ELSE x
Rat(n, d) ==
    LET s == IF d < 0 THEN -1 ELSE 1
        g == Gcd(Abs(n), Abs(d))
    IN [n |-> (s * n) \div g, d |-> (s * d) \div g]
RInt(i) == [n |-> i, d |-> 1]
RNeg(x) == [n |-> -x.n, d |-> x.d]
RAdd(x, y) == Rat(x.n * y.d + y.n * x.d, x.d * y.d)
RSub(x, y) == RAdd(x, RNeg(y))
RMul(x, y) == Rat(x.n * y.n, x.d * y.d)
RDivInt(x, k) == Rat(x.n, x.d * k)

(* ------------------------------ state -------------------------------- *)
VARIABLES
    (* inputs of one dcm_to_nii call *)
    dump,            \* dcmdump_output.splitlines(), decoded
    rawfile_data,    \* what dcmdump +W writes for this file: the sample vector
    args,            \* the call's arguments
    (* control *)
    pc, err,
    (* locals bound by the line scan *)
    acqdate, acqtime, patID, protocol, patpos, TR,
    cosines, pixspac, frames, rows, cols,
    optseq,          \* the eleven optional per-frame lists, by name
    IPPs, ISPnums, DIVs,
    (* locals bound after the scan *)
    ptbl_data, slices, rawarray, fsp, lsp, step, affine, ppaff, img,
    basename_parts, nii_filename,
    written,         \* files written into save_directory: name -> content
    (* two concurrent conversions *)
    cpc, cdir, cfs, cexists, cread, cerr,
    (* the batch traversal *)
    bfiles, bidx, nii_filenames, bstatus, battempted

inVars == <<dump, rawfile_data, args>>
scanVars == <<acqdate, acqtime, patID, protocol, patpos, TR,
              cosines, pixspac, frames, rows, cols, IPPs, ISPnums, DIVs>>
lateVars == <<ptbl_data, slices, rawarray, fsp, lsp, step, affine, ppaff, img,
              basename_parts, nii_filename, written>>
convVars == <<inVars, pc, err, scanVars, optseq, lateVars>>
concVars == <<cpc, cdir, cfs, cexists, cread, cerr>>
batchVars == <<bfiles, bidx, nii_filenames, bstatus, battempted>>
vars == <<convVars, concVars, batchVars>>

(* ------------------------- the line scan ----------------------------- *)
OptNames == {"repno", "diffdir", "TIs", "bval", "bvalXX", "bvalXY", "bvalXZ",
             "bvalYY", "bvalYZ", "bvalZZ", "frame_comments"}

OptTag(k) ==
    CASE k = "diffdir" -> "(0018,9075)"
      [] k = "TIs" -> "(0018,9079)"
      [] k = "bval" -> "(0018,9087)"
      [] k = "bvalXX" -> "(0018,9602)"
      [] k = "bvalXY" -> "(0018,9603)"
      [] k = "bvalXZ" -> "(0018,9604)"
      [] k = "bvalYY" -> "(0018,9605)"
      [] k = "bvalYZ" -> "(0018,9606)"
      [] k = "bvalZZ" -> "(0018,9607)"
      [] k = "repno" -> "(0020,9128)"
      [] k = "frame_comments" -> "(0020,9158)"

(* 143-161: the locals declared before the loop hold an empty list; every *)
(* other local is unbound until a line assigns it                         *)
(* faulty variant: pixspac declared before the loop as well *)
InitialLocalAllDeclared(name) ==
    CASE name \in {"TR", "protocol"} -> Bind(PyList(<<>>))
      [] name = "pixspac" -> Bind(<<[n |-> 1, d |-> 1], [n |-> 1, d |-> 1]>>)
      [] OTHER -> Unbound

InitialLocal(name) ==
    CASE name \in {"TR", "protocol"} -> Bind(PyList(<<>>))
      [] OTHER -> Unbound

WithTag(lines, tag) == SelectSeq(lines, LAMBDA l : l.tag = tag)

(* a tag whose branch assigns: the last matching line wins *)
Overwrite(lines, tag, before) ==
    LET sel == WithTag(lines, tag)
    IN IF sel = <<>> THEN before ELSE Bind(sel[Len(sel)].vals)

(* a tag whose branch appends: one element per matching line, in order *)
Append_(lines, tag, before) ==
    LET sel == WithTag(lines, tag)
    IN before \o [i \in 1..Len(sel) |-> sel[i].vals]

Scan ==
    /\ pc = "scan"
    /\ acqdate' = Overwrite(dump, "(0008,0021)", acqdate)
    /\ acqtime' = Overwrite(dump, "(0008,0031)", acqtime)
    /\ patID' = Overwrite(dump, "(0010,0020)", patID)
    /\ TR' = Overwrite(dump, "(0018,0080)", TR)
    /\ protocol' = Overwrite(dump, "(0018,1030)", protocol)
    /\ patpos' = Overwrite(dump, "(0018,5100)", patpos)
    /\ optseq' = [k \in OptNames |-> Append_(dump, OptTag(k), optseq[k])]
    /\ IPPs' = Append_(dump, "(0020,0032)", IPPs)
    /\ cosines' = Overwrite(dump, "(0020,0037)", cosines)
    /\ ISPnums' = Append_(dump, "(0020,9057)", ISPnums)
    /\ DIVs' = Append_(dump, "(0020,9157)", DIVs)
    /\ frames' = Overwrite(dump, "(0028,0008)", frames)
    /\ rows' = Overwrite(dump, "(0028,0010)", rows)
    /\ cols' = Overwrite(dump, "(0028,0011)", cols)
    /\ pixspac' = Overwrite(dump, "(0028,0030)", pixspac)
    /\ pc' = "fill"
    /\ UNCHANGED <<inVars, err, lateVars, concVars, batchVars>>

(* ------------------- the parameter table (257-288) ------------------- *)
Repeat(x, n) == [i \in 1..n |-> x]

(* faulty variant: the scanned values kept, padded or cut to length *)
NAFillPadded(seq, ref) ==
    [i \in 1..Len(ref) |-> IF i <= Len(seq) THEN seq[i] ELSE "NA"]

NAFill(seq, ref) ==
    IF Len(seq) # Len(ref) THEN Repeat("NA", Len(ref)) ELSE seq

FillNA ==
    /\ pc = "fill"
    /\ optseq' = [k \in OptNames |-> NAFill(optseq[k], ISPnums)]
    /\ pc' = "ptbl"
    /\ UNCHANGED <<inVars, err, scanVars, lateVars, concVars, batchVars>>


(* row i of ptbl_data: the twelve stacked lists, the frame comment, DIVs[i] *)
PtblRow(i) ==
    <<optseq["repno"][i], ISPnums[i], optseq["diffdir"][i], optseq["TIs"][i],
      optseq["bval"][i], optseq["bvalXX"][i], optseq["bvalXY"][i],
      optseq["bvalXZ"][i], optseq["bvalYY"][i], optseq["bvalYZ"][i],
      optseq["bvalZZ"][i], IPPs[i], optseq["frame_comments"][i]>> \o DIVs[i]

(* np.hstack needs three 2-D blocks with the same number of rows; an empty *)
(* DIVs is 1-D and a list shorter or longer than ISPnums breaks the stack  *)
Stackable ==
    /\ Len(ISPnums) > 0
    /\ Len(IPPs) = Len(ISPnums)
    /\ Len(DIVs) = Len(ISPnums)
    /\ \A i, j \in DOMAIN DIVs : Len(DIVs[i]) = Len(DIVs[j])

BuildPtbl ==
    /\ pc = "ptbl"
    /\ IF Stackable
       THEN /\ ptbl_data' = Bind([i \in 1..Len(ISPnums) |-> PtblRow(i)])
            /\ pc' = "slices"
            /\ err' = err
       ELSE /\ ptbl_data' = ptbl_data
            /\ pc' = "error"
            /\ err' = Raise("ValueError", "hstack", 286)
    /\ UNCHANGED <<inVars, scanVars, optseq, slices, rawarray, fsp, lsp, step,
                   affine, ppaff, img, basename_parts, nii_filename, written,
                   concVars, batchVars>>

(* ----------------------------- slices (290) -------------------------- *)
RECURSIVE Max(_)
Max(s) ==
    IF Len(s) = 1 THEN s[1]
    ELSE LET m == Max(Tail(s)) IN IF s[1] >= m THEN s[1] ELSE m

Slices ==
    /\ pc = "slices"
    /\ IF ISPnums = <<>>
       THEN /\ slices' = slices
            /\ pc' = "error"
            /\ err' = Raise("ValueError", "max", 290)
       ELSE /\ slices' = Bind(Max(ISPnums))
            /\ pc' = "raw"
            /\ err' = err
    /\ UNCHANGED <<inVars, scanVars, optseq, ptbl_data, rawarray, fsp, lsp, step,
                   affine, ppaff, img, basename_parts, nii_filename, written,
                   concVars, batchVars>>

(* -------------------- arrays: data, shape, strides ------------------- *)
RECURSIVE Prod(_)
Prod(s) == IF s = <<>> THEN 1 ELSE s[1] * Prod(Tail(s))

(* the strides, in samples, of a C-ordered array of this shape *)
CStrides(shape) ==
    [i \in 1..Len(shape) |-> Prod(SubSeq(shape, i + 1, Len(shape)))]

(* np.fromfile: a vector *)
FromFile(data) == [shape |-> <<Len(data)>>, strides |-> <<1>>, data |-> data]

(* np.reshape of a C-contiguous array: the samples stay, the shape changes *)
(* faulty variant: a shape smaller than the array is accepted *)
CanReshapeTruncating(a, shape) == Prod(shape) <= Len(a.data)

CanReshape(a, shape) == Prod(shape) = Len(a.data)
Reshaped(a, shape) == [shape |-> shape, strides |-> CStrides(shape), data |-> a.data]

(* np.transpose(a, axes): axis i of the result is axis axes[i] of a *)
Transposed(a, axes) ==
    [shape |-> [i \in 1..Len(axes) |-> a.shape[axes[i] + 1]],
     strides |-> [i \in 1..Len(axes) |-> a.strides[axes[i] + 1]],
     data |-> a.data]

RECURSIVE Dot(_, _)
Dot(u, v) == IF u = <<>> THEN 0 ELSE u[1] * v[1] + Dot(Tail(u), Tail(v))

(* a[idx], idx 0-based *)
At(a, idx) == a.data[1 + Dot(idx, a.strides)]

(* ------------------------ raw samples (292-299) ---------------------- *)
(* one conversion alone: a stale raw file is removed, dcmdump +W writes   *)
(* the samples, np.fromfile reads them, the file is removed.  The input  *)
(* is named EnIm1.dcm, the name line 293 expects of the raw file.        *)
ExtractRaw ==
    /\ pc = "raw"
    /\ rawarray' = Bind(FromFile(rawfile_data))
    /\ pc' = "reshape"
    /\ UNCHANGED <<inVars, err, scanVars, optseq, ptbl_data, slices, fsp, lsp,
                   step, affine, ppaff, img, basename_parts, nii_filename,
                   written, concVars, batchVars>>

(* ------------------------- reshaping (301-304) ----------------------- *)
FrameShape == <<Val(frames), Val(rows), Val(cols)>>

(* int(frames / slices) truncates *)
SplitShape ==
    <<Val(frames) \div Val(slices), Val(slices), Val(rows), Val(cols)>>

(* faulty variant: rows and columns exchanged *)
VolumeAxesSwapped == <<2, 3, 1, 0>>

VolumeAxes == <<3, 2, 1, 0>>

ReshapeError ==
    CASE ~IsBound(frames) -> Raise("UnboundLocalError", "frames", 302)
      [] IsBound(frames) /\ ~IsBound(rows) -> Raise("UnboundLocalError", "rows", 302)
      [] IsBound(frames) /\ IsBound(rows) /\ ~IsBound(cols) ->
            Raise("UnboundLocalError", "cols", 302)
      [] OTHER ->
            IF ~CanReshape(Val(rawarray), FrameShape)
            THEN Raise("ValueError", "reshape", 302)
            ELSE IF ~CanReshape(Val(rawarray), SplitShape)
            THEN Raise("ValueError", "reshape", 303)
            ELSE NoErr

Reshape ==
    /\ pc = "reshape"
    /\ IF ReshapeError # NoErr
       THEN /\ rawarray' = rawarray
            /\ pc' = "error"
            /\ err' = ReshapeError
       ELSE /\ rawarray' =
                 Bind(Transposed(Reshaped(Reshaped(Val(rawarray), FrameShape),
                                          SplitShape), VolumeAxes))
            /\ pc' = "positions"
            /\ err' = err
    /\ UNCHANGED <<inVars, scanVars, optseq, ptbl_data, slices, fsp, lsp, step,
                   affine, ppaff, img, basename_parts, nii_filename, written,
                   concVars, batchVars>>


(* -------------------- slice positions (306-308) ---------------------- *)
(* np.array(IPPs)[np.array(ISPnums) == k].tolist(): the positions of the   *)
(* frames whose in-stack position number is k, in frame order              *)
Masked(k) ==
    LET idx == SelectSeq([i \in 1..Len(ISPnums) |-> i],
                         LAMBDA i : ISPnums[i] = k)
    IN [j \in 1..Len(idx) |-> IPPs[idx[j]]]

FirstMasked(k) == Masked(k)[1]

Positions ==
    /\ pc = "positions"
    /\ IF Len(IPPs) # Len(ISPnums) \/ Masked(1) = <<>>
       THEN /\ pc' = "error"
            /\ err' = Raise("IndexError", "fsp", 307)
            /\ UNCHANGED <<fsp, lsp>>
       ELSE /\ fsp' = Bind(FirstMasked(1))
            /\ lsp' = Bind(FirstMasked(Val(slices)))
            /\ pc' = "affine"
            /\ err' = err
    /\ UNCHANGED <<inVars, scanVars, optseq, ptbl_data, slices, rawarray, step,
                   affine, ppaff, img, basename_parts, nii_filename, written,
                   concVars, batchVars>>

(* --------------------- step and affine (310-325) --------------------- *)
(* eucliddist and slicegap (313, 319) are computed and never read *)
SliceStep ==
    IF Val(slices) = 1
    THEN <<RInt(0), RInt(0), RInt(-1)>>
    ELSE [i \in 1..3 |-> RDivInt(RSub(Val(fsp)[i], Val(lsp)[i]), 1 - Val(slices))]

(* cosines c[1..6] and pixspac p[1..2] are the source's c[0..5], p[0..1] *)
(* faulty variant: the two pixel spacings exchanged *)
BaseAffineSpacingSwapped(c, p, st, f) ==
    << <<RNeg(RMul(c[1], p[1])), RNeg(RMul(c[4], p[2])), RNeg(st[1]), RNeg(f[1])>>,
       <<RNeg(RMul(c[2], p[1])), RNeg(RMul(c[5], p[2])), RNeg(st[2]), RNeg(f[2])>>,
       <<RMul(c[3], p[1]), RMul(c[6], p[2]), st[3], f[3]>>,
       <<RInt(0), RInt(0), RInt(0), RInt(1)>> >>

BaseAffine(c, p, st, f) ==
    << <<RNeg(RMul(c[1], p[2])), RNeg(RMul(c[4], p[1])), RNeg(st[1]), RNeg(f[1])>>,
       <<RNeg(RMul(c[2], p[2])), RNeg(RMul(c[5], p[1])), RNeg(st[2]), RNeg(f[2])>>,
       <<RMul(c[3], p[2]), RMul(c[6], p[1]), st[3], f[3]>>,
       <<RInt(0), RInt(0), RInt(0), RInt(1)>> >>

StepAffine ==
    /\ pc = "affine"
    /\ step' = Bind(SliceStep)
    /\ IF ~IsBound(cosines)
       THEN /\ pc' = "error"
            /\ err' = Raise("UnboundLocalError", "cosines", 322)
            /\ affine' = affine
       ELSE IF ~IsBound(pixspac)
       THEN /\ pc' = "error"
            /\ err' = Raise("UnboundLocalError", "pixspac", 322)
            /\ affine' = affine
       ELSE /\ affine' = Bind(BaseAffine(Val(cosines), Val(pixspac), SliceStep, Val(fsp)))
            /\ pc' = "patpos"
            /\ err' = err
    /\ UNCHANGED <<inVars, scanVars, optseq, ptbl_data, slices, rawarray, fsp, lsp,
                   ppaff, img, basename_parts, nii_filename, written,
                   concVars, batchVars>>

(* ------------------ patient position (327-336) ----------------------- *)
(* _rotate_affine(angle, axis) of sammba/io_conversions/utils.py: the      *)
(* right-handed rotation about the axis, for the multiples of 90 degrees   *)
Cos90(angle) ==
    CASE angle = 0 -> 1 [] angle = 90 -> 0 [] angle = 180 -> -1 [] angle = 270 -> 0

Sin90(angle) ==
    CASE angle = 0 -> 0 [] angle = 90 -> 1 [] angle = 180 -> 0 [] angle = 270 -> -1

IntMatrix(m) == [i \in 1..4 |-> [j \in 1..4 |-> RInt(m[i][j])]]

rotate_affine(angle, axis) ==
    LET c == Cos90(angle)
        s == Sin90(angle)
    IN IntMatrix(
        CASE axis = "x" -> << <<1, 0, 0, 0>>, <<0, c, -s, 0>>, <<0, s, c, 0>>, <<0, 0, 0, 1>> >>
          [] axis = "y" -> << <<c, 0, s, 0>>, <<0, 1, 0, 0>>, <<-s, 0, c, 0>>, <<0, 0, 0, 1>> >>
          [] axis = "z" -> << <<c, -s, 0, 0>>, <<s, c, 0, 0>>, <<0, 0, 1, 0>>, <<0, 0, 0, 1>> >>)

affineident == IntMatrix(<< <<1, 0, 0, 0>>, <<0, 1, 0, 0>>, <<0, 0, 1, 0>>, <<0, 0, 0, 1>> >>)

(* faulty variant: any other code treated as FFS *)
PatientPositionAffineDefaulted(code, before) ==
    CASE code = "HFS" -> Bind(rotate_affine(180, "y"))
      [] code = "HFP" -> Bind(rotate_affine(180, "x"))
      [] OTHER -> Bind(affineident)

(* three ifs, no else: any other code leaves ppaff as it was *)
PatientPositionAffine(code, before) ==
    CASE code = "HFS" -> Bind(rotate_affine(180, "y"))
      [] code = "FFS" -> Bind(affineident)
      [] code = "HFP" -> Bind(rotate_affine(180, "x"))
      [] OTHER -> before

PatPos ==
    /\ pc = "patpos"
    /\ IF ~IsBound(patpos)
       THEN /\ pc' = "error"
            /\ err' = Raise("UnboundLocalError", "patpos", 330)
            /\ ppaff' = ppaff
       ELSE /\ ppaff' = PatientPositionAffine(Val(patpos), ppaff)
            /\ pc' = "siap"
            /\ err' = err
    /\ UNCHANGED <<inVars, scanVars, optseq, ptbl_data, slices, rawarray, fsp, lsp,
                   step, affine, img, basename_parts, nii_filename, written,
                   concVars, batchVars>>

(* ------------------------- siap_fix (338-342) ------------------------ *)
MatMul(a, b) ==
    [i \in 1..4 |-> [j \in 1..4 |->
        RAdd(RAdd(RMul(a[i][1], b[1][j]), RMul(a[i][2], b[2][j])),
             RAdd(RMul(a[i][3], b[3][j]), RMul(a[i][4], b[4][j])))]]

FixedAffine(pp, aff) ==
    MatMul(MatMul(MatMul(MatMul(rotate_affine(270, "x"), rotate_affine(180, "y")),
                         rotate_affine(180, "z")), pp), aff)

SiapFix ==
    /\ pc = "siap"
    /\ IF args.siap_fix
       THEN IF ~IsBound(ppaff)
            THEN /\ pc' = "error"
                 /\ err' = Raise("UnboundLocalError", "ppaff", 340)
                 /\ affine' = affine
            ELSE /\ affine' = Bind(FixedAffine(Val(ppaff), Val(affine)))
                 /\ pc' = "image"
                 /\ err' = err
       ELSE /\ affine' = affine
            /\ pc' = "image"
            /\ err' = err
    /\ UNCHANGED <<inVars, scanVars, optseq, ptbl_data, slices, rawarray, fsp, lsp,
                   step, ppaff, img, basename_parts, nii_filename, written,
                   concVars, batchVars>>

(* --------------------------- image (344-349) ------------------------- *)
MakeImage ==
    /\ pc = "image"
    /\ img' = Bind([dataobj |-> Val(rawarray), affine |-> Val(affine),
                    pixdim4 |-> IF Val(TR) = PyList(<<>>) THEN <<>> ELSE TR])
    /\ pc' = "name"
    /\ UNCHANGED <<inVars, err, scanVars, optseq, ptbl_data, slices, rawarray, fsp,
                   lsp, step, affine, ppaff, basename_parts, nii_filename, written,
                   concVars, batchVars>>


(* ------------------------ file names (351-380) ----------------------- *)
Chars_bf == <<"b", "f">>
Chars_fixedSIAP == <<"f", "i", "x", "e", "d", "S", "I", "A", "P">>
Chars_origSIAP == <<"o", "r", "i", "g", "S", "I", "A", "P">>
Chars_nii_gz == <<".", "n", "i", "i", ".", "g", "z">>
Chars_ptbl_txt == <<"_", "p", "t", "b", "l", ".", "t", "x", "t">>

(* what iterating a Python value yields: the characters of a str, each a  *)
(* str of length one, or the items of a list                               *)
Iter(x) ==
    IF x.t = "str" THEN [i \in 1..Len(x.v) |-> <<x.v[i]>>]
    ELSE [i \in 1..Len(x.v) |-> x.v[i].v]

RECURSIVE JoinChars(_, _)
JoinChars(sep, items) ==
    IF items = <<>> THEN <<>>
    ELSE IF Len(items) = 1 THEN items[1]
    ELSE items[1] \o sep \o JoinChars(sep, Tail(items))

(* sep.join(x) *)
Join(sep, x) == PyStr(JoinChars(sep, Iter(x)))

(* dicom_filename is kept split on os.sep, as dicom_filename.split(os.sep) *)
Basename(path) == path[Len(path)]

SIAPfixres == IF args.siap_fix THEN PyStr(Chars_fixedSIAP) ELSE PyStr(Chars_origSIAP)

NameError ==
    CASE Len(args.dicom_filename) < 5 -> Raise("IndexError", "bf", 351)
      [] Len(args.dicom_filename) >= 5 /\ args.id_in_filename /\ ~IsBound(patID) ->
            Raise("UnboundLocalError", "patID", 361)
      [] OTHER ->
            IF args.date_in_filename /\ ~IsBound(acqdate)
            THEN Raise("UnboundLocalError", "acqdate", 363)
            ELSE IF args.time_in_filename /\ ~IsBound(acqtime)
            THEN Raise("UnboundLocalError", "acqtime", 365)
            ELSE NoErr

NameParts ==
    LET bf == PyStr(Chars_bf \o args.dicom_filename[Len(args.dicom_filename) - 4].v)
    IN (IF args.id_in_filename THEN <<Join(<<>>, Val(patID))>> ELSE <<>>)
       \o (IF args.date_in_filename THEN <<Join(<<>>, Val(acqdate))>> ELSE <<>>)
       \o (IF args.time_in_filename THEN <<Join(<<>>, Val(acqtime))>> ELSE <<>>)
       \o (IF args.protocol_in_filename THEN <<Join(<<>>, Val(protocol))>> ELSE <<>>)
       \o (IF args.siap_in_filename THEN <<Join(<<>>, SIAPfixres)>> ELSE <<>>)
       \o (IF args.paravision_folder_in_filename THEN <<Join(<<>>, bf)>> ELSE <<>>)

(* 372-376: an empty list is replaced by the basename, a str *)
BasenameParts(parts) ==
    IF parts = <<>> THEN Basename(args.dicom_filename) ELSE PyList(parts)

basename_no_ext == Join(<<"_">>, Val(basename_parts))

Name ==
    /\ pc = "name"
    /\ IF NameError # NoErr
       THEN /\ pc' = "error"
            /\ err' = NameError
            /\ UNCHANGED <<basename_parts, nii_filename>>
       ELSE /\ basename_parts' = Bind(BasenameParts(NameParts))
            /\ nii_filename' =
                 Bind(<<args.save_directory,
                        Join(<<"_">>, BasenameParts(NameParts)).v \o Chars_nii_gz>>)
            /\ pc' = "write"
            /\ err' = err
    /\ UNCHANGED <<inVars, scanVars, optseq, ptbl_data, slices, rawarray, fsp, lsp,
                   step, affine, ppaff, img, written, concVars, batchVars>>

(* --------------------------- output (381-391) ------------------------ *)
Write ==
    /\ pc = "write"
    /\ written' = {[path |-> Val(nii_filename), content |-> "img"],
                   [path |-> <<args.save_directory, basename_no_ext.v \o Chars_ptbl_txt>>,
                    content |-> "ptbl_data"]}
    /\ pc' = "done"
    /\ UNCHANGED <<inVars, err, scanVars, optseq, ptbl_data, slices, rawarray, fsp,
                   lsp, step, affine, ppaff, img, basename_parts, nii_filename,
                   concVars, batchVars>>


(* ----------------------- inputs of a conversion ---------------------- *)
Chars_EnIm1_dcm == <<"E", "n", "I", "m", "1", ".", "d", "c", "m">>

(* /s/7/pdata/1/dicom/EnIm1.dcm and /d/EnIm1.dcm, split on os.sep *)
DeepPath ==
    <<PyStr(<<>>), PyStr(<<"s">>), PyStr(<<"7">>), PyStr(<<"p", "d">>),
      PyStr(<<"1">>), PyStr(<<"d", "c">>), PyStr(Chars_EnIm1_dcm)>>

ShallowPath == <<PyStr(<<>>), PyStr(<<"d">>), PyStr(Chars_EnIm1_dcm)>>

FlagNames == {"id_in_filename", "date_in_filename", "time_in_filename",
              "protocol_in_filename", "paravision_folder_in_filename",
              "siap_in_filename"}

Args(siap, flags, path) ==
    [siap_fix |-> siap,
     id_in_filename |-> flags["id_in_filename"],
     date_in_filename |-> flags["date_in_filename"],
     time_in_filename |-> flags["time_in_filename"],
     protocol_in_filename |-> flags["protocol_in_filename"],
     paravision_folder_in_filename |-> flags["paravision_folder_in_filename"],
     siap_in_filename |-> flags["siap_in_filename"],
     dicom_filename |-> path,
     save_directory |-> "out"]

AllFlags == [k \in FlagNames |-> TRUE]

Required == {"frames", "rows", "cols", "cosines", "pixspac"}
ScalarNames == Required \cup {"patpos", "patID", "acqdate", "acqtime", "protocol", "TR"}

(* the image position written for frame i, whose in-stack position is k *)
PosOf(i, k) == <<RInt(i), RInt(2 * k), RInt(5 - 3 * k)>>

CosinesA == <<RInt(1), RInt(0), RInt(0), RInt(0), RInt(1), RInt(0)>>
CosinesB == <<RInt(0), RInt(1), RInt(0), RInt(0), RInt(0), RInt(-1)>>

OptOrder == <<"repno", "diffdir", "TIs", "bval", "bvalXX", "bvalXY", "bvalXZ",
              "bvalYY", "bvalYZ", "bvalZZ", "frame_comments">>

RECURSIVE Flatten(_)
Flatten(ss) == IF ss = <<>> THEN <<>> ELSE ss[1] \o Flatten(Tail(ss))

(* the decoded dump of a file described by P *)
MkDump(P) ==
    LET one(name, tag, v) ==
            IF name \in P.present THEN <<[tag |-> tag, vals |-> v]>> ELSE <<>>
        isp(i) == IF i <= Len(P.isp) THEN P.isp[i] ELSE 0
    IN one("acqdate", "(0008,0021)", PyStr(<<"2", "0">>))
       \o one("acqtime", "(0008,0031)", PyStr(<<"0", "9">>))
       \o one("patID", "(0010,0020)", PyStr(<<"m", "7">>))
       \o one("TR", "(0018,0080)", RInt(35))
       \o one("protocol", "(0018,1030)", PyStr(<<"T", "2">>))
       \o one("patpos", "(0018,5100)", P.vpatpos)
       \o one("cosines", "(0020,0037)", P.vcos)
       \o one("frames", "(0028,0008)", P.vframes)
       \o one("rows", "(0028,0010)", P.vrows)
       \o one("cols", "(0028,0011)", P.vcols)
       \o one("pixspac", "(0028,0030)", <<RInt(2), RInt(3)>>)
       \o [i \in 1..Len(P.isp) |-> [tag |-> "(0020,9057)", vals |-> P.isp[i]]]
       \o [i \in 1..P.nipp |-> [tag |-> "(0020,0032)", vals |-> PosOf(i, isp(i))]]
       \o [i \in 1..P.ndiv |-> [tag |-> "(0020,9157)", vals |-> <<1, isp(i), i>>]]
       \o Flatten([j \in 1..Len(OptOrder) |->
                     [i \in 1..P.optlen[OptOrder[j]] |->
                        [tag |-> OptTag(OptOrder[j]), vals |-> ToString(i)]]])

(* int16 samples, increasing along the vector *)
RawData(n) == [i \in 1..n |-> i - 1]

(* in-stack position numbers of r repetitions of s slices *)
Stack(s, r) == [i \in 1..(s * r) |-> ((i - 1) % s) + 1]

RegularStacks ==
    {Stack(x[1], x[2]) :
        x \in {y \in (1..MaxSlices) \X (1..MaxFrames) : y[1] * y[2] <= MaxFrames}}

AnyStacks == UNION {[1..n -> 1..MaxSlices] : n \in 1..MaxAnyLen}

(* a well-formed file with in-stack position numbers q *)
File(q) ==
    [present |-> ScalarNames, vpatpos |-> "HFS", vcos |-> CosinesA,
     vframes |-> Len(q), vrows |-> 1, vcols |-> 2, isp |-> q,
     nipp |-> Len(q), ndiv |-> Len(q), optlen |-> [k \in OptNames |-> Len(q)],
     rawlen |-> Len(q) * 2]

Case(P, A) == [file |-> P, args |-> A]

(* any position numbers, frame count equal to their number or one more *)
FamGeometry ==
    {Case([File(q) EXCEPT !.vframes = f, !.rawlen = f * 2],
          Args(FALSE, AllFlags, DeepPath)) :
        q \in AnyStacks, f \in 1..(MaxAnyLen + 1)}

PatPosCodes == {"HFS", "FFS", "HFP", "FFP", "HFDR"}

FamPatPos ==
    {Case([File(q) EXCEPT !.vpatpos = c, !.vcos = o], Args(b, AllFlags, DeepPath)) :
        q \in RegularStacks, c \in PatPosCodes, o \in {CosinesA, CosinesB},
        b \in BOOLEAN}
    \cup
    {Case([File(q) EXCEPT !.present = ScalarNames \ {"patpos"}],
          Args(b, AllFlags, DeepPath)) :
        q \in RegularStacks, b \in BOOLEAN}

FamMissing ==
    {Case([File(q) EXCEPT !.present = ScalarNames \ a], Args(b, AllFlags, DeepPath)) :
        q \in {<<1, 2>>, <<2, 2>>, <<1, 2, 2>>}, a \in SUBSET Required,
        b \in BOOLEAN}

FamLists ==
    {Case([File(q) EXCEPT !.nipp = n[1], !.ndiv = n[2]],
          Args(FALSE, AllFlags, DeepPath)) :
        q \in RegularStacks \cup {<<>>},
        n \in (0..MaxFrames) \X (0..MaxFrames)}

DiffusionNames == {"diffdir", "bval", "bvalXX", "bvalXY", "bvalXZ", "bvalYY",
                   "bvalYZ", "bvalZZ"}

(* one list of any length, the diffusion lists of a second length, the *)
(* others empty or complete                                            *)
FamTable ==
    {Case([File(q) EXCEPT !.optlen =
              [k \in OptNames |->
                  IF k = x[1] THEN x[2]
                  ELSE IF k \in DiffusionNames THEN x[3]
                  ELSE IF x[4] THEN Len(q) ELSE 0]],
          Args(FALSE, AllFlags, DeepPath)) :
        q \in {Stack(1, 1), Stack(2, 1), Stack(1, 2)},
        x \in OptNames \X (0..MaxOptLen) \X (0..MaxOptLen) \X BOOLEAN}

FamReshape ==
    {Case([File(q) EXCEPT !.vrows = d[1], !.vcols = d[2],
                          !.rawlen = Len(q) * d[1] * d[2] + d[3]],
          Args(FALSE, AllFlags, DeepPath)) :
        q \in RegularStacks, d \in (1..MaxDim) \X (1..MaxDim) \X {0, 1}}

FamName ==
    {Case([File(<<1>>) EXCEPT !.present = ScalarNames \ a], Args(b, fl, path)) :
        a \in {{}, {"patID"}, {"acqtime", "protocol"}}, b \in BOOLEAN,
        fl \in [FlagNames -> BOOLEAN], path \in {DeepPath, ShallowPath}}

Cases == FamGeometry \cup FamPatPos \cup FamMissing \cup FamLists \cup FamTable
         \cup FamReshape \cup FamName

ConvStart(c) ==
    /\ dump = MkDump(c.file)
    /\ rawfile_data = RawData(c.file.rawlen)
    /\ args = c.args
    /\ pc = "scan"
    /\ err = NoErr
    /\ acqdate = InitialLocal("acqdate") /\ acqtime = InitialLocal("acqtime")
    /\ patID = InitialLocal("patID") /\ protocol = InitialLocal("protocol")
    /\ patpos = InitialLocal("patpos") /\ TR = InitialLocal("TR")
    /\ cosines = InitialLocal("cosines") /\ pixspac = InitialLocal("pixspac")
    /\ frames = InitialLocal("frames") /\ rows = InitialLocal("rows")
    /\ cols = InitialLocal("cols")
    /\ optseq = [k \in OptNames |-> <<>>]
    /\ IPPs = <<>> /\ ISPnums = <<>> /\ DIVs = <<>>
    /\ ptbl_data = Unbound /\ slices = Unbound /\ rawarray = Unbound
    /\ fsp = Unbound /\ lsp = Unbound /\ step = Unbound /\ affine = Unbound
    /\ ppaff = Unbound /\ img = Unbound
    /\ basename_parts = Unbound /\ nii_filename = Unbound
    /\ written = {}

ConcIdle ==
    /\ cpc = <<>> /\ cdir = <<>> /\ cfs = <<>>
    /\ cexists = <<>> /\ cread = <<>> /\ cerr = <<>>

BatchIdle ==
    /\ bfiles = <<>> /\ bidx = 0 /\ nii_filenames = <<>>
    /\ bstatus = "idle" /\ battempted = {}

Init == (\E c \in Cases : ConvStart(c)) /\ ConcIdle /\ BatchIdle

Next ==
    \/ Scan \/ FillNA \/ BuildPtbl \/ Slices \/ ExtractRaw \/ Reshape
    \/ Positions \/ StepAffine \/ PatPos \/ SiapFix \/ MakeImage \/ Name \/ Write

Spec == Init /\ [][Next]_vars


(* ------------- two conversions on one file system (292-299) ---------- *)
(* cfs[d] is the content of d/EnIm1.dcm.0.raw: <<>> when the file does not *)
(* exist, <<p>> when it holds the samples of conversion p's input, <<0>>   *)
(* when it is a stale file left by an earlier run                          *)
Procs == {1, 2}
Dirs == {"out", "out2"}

ConvIdle ==
    /\ dump = <<>> /\ rawfile_data = <<>> /\ args = <<>>
    /\ pc = "idle" /\ err = NoErr
    /\ acqdate = Unbound /\ acqtime = Unbound /\ patID = Unbound
    /\ protocol = Unbound /\ patpos = Unbound /\ TR = Unbound
    /\ cosines = Unbound /\ pixspac = Unbound
    /\ frames = Unbound /\ rows = Unbound /\ cols = Unbound
    /\ optseq = <<>>
    /\ IPPs = <<>> /\ ISPnums = <<>> /\ DIVs = <<>>
    /\ ptbl_data = Unbound /\ slices = Unbound /\ rawarray = Unbound
    /\ fsp = Unbound /\ lsp = Unbound /\ step = Unbound /\ affine = Unbound
    /\ ppaff = Unbound /\ img = Unbound
    /\ basename_parts = Unbound /\ nii_filename = Unbound
    /\ written = {}

InitConc ==
    /\ ConvIdle /\ BatchIdle
    /\ cpc = [p \in Procs |-> "exists"]
    /\ cdir \in [Procs -> Dirs]
    /\ cfs \in [Dirs -> {<<>>, <<0>>}]
    /\ cexists = [p \in Procs |-> FALSE]
    /\ cread = [p \in Procs |-> <<>>]
    /\ cerr = [p \in Procs |-> NoErr]

(* 294: os.path.exists(rawfile) *)
CExists(p) ==
    /\ cpc[p] = "exists"
    /\ cexists' = [cexists EXCEPT ![p] = cfs[cdir[p]] # <<>>]
    /\ cpc' = [cpc EXCEPT ![p] = IF cfs[cdir[p]] # <<>> THEN "remove" ELSE "dump"]
    /\ UNCHANGED <<cdir, cfs, cread, cerr, convVars, batchVars>>

(* 295: os.remove(rawfile) *)
CRemove(p) ==
    /\ cpc[p] = "remove"
    /\ IF cfs[cdir[p]] = <<>>
       THEN /\ cerr' = [cerr EXCEPT ![p] = Raise("FileNotFoundError", "rawfile", 295)]
            /\ cpc' = [cpc EXCEPT ![p] = "error"]
            /\ cfs' = cfs
       ELSE /\ cfs' = [cfs EXCEPT ![cdir[p]] = <<>>]
            /\ cpc' = [cpc EXCEPT ![p] = "dump"]
            /\ cerr' = cerr
    /\ UNCHANGED <<cdir, cexists, cread, convVars, batchVars>>

(* 296-297: dcmdump +W writes the samples of p's input into save_directory *)
CDump(p) ==
    /\ cpc[p] = "dump"
    /\ cfs' = [cfs EXCEPT ![cdir[p]] = <<p>>]
    /\ cpc' = [cpc EXCEPT ![p] = "read"]
    /\ UNCHANGED <<cdir, cexists, cread, cerr, convVars, batchVars>>

(* 298: np.fromfile(rawfile) *)
CRead(p) ==
    /\ cpc[p] = "read"
    /\ IF cfs[cdir[p]] = <<>>
       THEN /\ cerr' = [cerr EXCEPT ![p] = Raise("FileNotFoundError", "rawfile", 298)]
            /\ cpc' = [cpc EXCEPT ![p] = "error"]
            /\ cread' = cread
       ELSE /\ cread' = [cread EXCEPT ![p] = cfs[cdir[p]]]
            /\ cpc' = [cpc EXCEPT ![p] = "cleanup"]
            /\ cerr' = cerr
    /\ UNCHANGED <<cdir, cfs, cexists, convVars, batchVars>>

(* 299: os.remove(rawfile) *)
CCleanup(p) ==
    /\ cpc[p] = "cleanup"
    /\ IF cfs[cdir[p]] = <<>>
       THEN /\ cerr' = [cerr EXCEPT ![p] = Raise("FileNotFoundError", "rawfile", 299)]
            /\ cpc' = [cpc EXCEPT ![p] = "error"]
            /\ cfs' = cfs
       ELSE /\ cfs' = [cfs EXCEPT ![cdir[p]] = <<>>]
            /\ cpc' = [cpc EXCEPT ![p] = "rest"]
            /\ cerr' = cerr
    /\ UNCHANGED <<cdir, cexists, cread, convVars, batchVars>>

(* 301-391: the rest of the conversion works on the samples read *)
CFinish(p) ==
    /\ cpc[p] = "rest"
    /\ cpc' = [cpc EXCEPT ![p] = "done"]
    /\ UNCHANGED <<cdir, cfs, cexists, cread, cerr, convVars, batchVars>>

NextConc ==
    \E p \in Procs :
        \/ CExists(p) \/ CRemove(p) \/ CDump(p) \/ CRead(p) \/ CCleanup(p)
        \/ CFinish(p)

SpecConc == InitConc /\ [][NextConc]_vars

(* --------------------- the batch traversal (394-430) ----------------- *)
Chars_EnIm == <<"E", "n", "I", "m">>
Chars_dcm == <<".", "d", "c", "m">>

StartsWith(s, pre) == Len(s) >= Len(pre) /\ SubSeq(s, 1, Len(pre)) = pre
EndsWith(s, suf) == Len(s) >= Len(suf) /\ SubSeq(s, Len(s) - Len(suf) + 1, Len(s)) = suf

(* _is_dicom(filename) *)
is_dicom(filename) == StartsWith(filename, Chars_EnIm) /\ EndsWith(filename, Chars_dcm)

BaseNames ==
    {Chars_EnIm1_dcm,
     <<"E", "n", "I", "m", "2", ".", "d", "c", "m">>,
     <<"2", "d", "s", "e", "q">>,
     <<"E", "n", "I", "m", ".", "t", "x", "t">>,
     <<"d", "c", "m">>}

(* a file met by os.walk: its basename, and whether dcm_to_nii converts it *)
(* or raises                                                               *)
WalkedFiles == [basename : BaseNames, converts : BOOLEAN]

InitBatch ==
    /\ ConvIdle /\ ConcIdle
    /\ bfiles \in UNION {[1..n -> WalkedFiles] : n \in 0..MaxFiles}
    /\ bidx = 0
    /\ nii_filenames = <<>>
    /\ bstatus = "walking"
    /\ battempted = {}

(* 425: a file that is not a DICOM by name is passed over *)
BSkip ==
    /\ bstatus = "walking" /\ bidx < Len(bfiles)
    /\ ~is_dicom(bfiles[bidx + 1].basename)
    /\ bidx' = bidx + 1
    /\ UNCHANGED <<bfiles, nii_filenames, bstatus, battempted, convVars, concVars>>

(* 426-429: dcm_to_nii returns and its path is appended *)
BConvert ==
    /\ bstatus = "walking" /\ bidx < Len(bfiles)
    /\ is_dicom(bfiles[bidx + 1].basename)
    /\ bfiles[bidx + 1].converts
    /\ nii_filenames' = Append(nii_filenames, bidx + 1)
    /\ battempted' = battempted \cup {bidx + 1}
    /\ bidx' = bidx + 1
    /\ UNCHANGED <<bfiles, bstatus, convVars, concVars>>

(* 426: dcm_to_nii raises; no handler is in the loop, the call ends *)
BRaise ==
    /\ bstatus = "walking" /\ bidx < Len(bfiles)
    /\ is_dicom(bfiles[bidx + 1].basename)
    /\ ~bfiles[bidx + 1].converts
    /\ battempted' = battempted \cup {bidx + 1}
    /\ bstatus' = "raised"
    /\ UNCHANGED <<bfiles, bidx, nii_filenames, convVars, concVars>>

(* 430: return nii_filenames *)
BReturn ==
    /\ bstatus = "walking" /\ bidx = Len(bfiles)
    /\ bstatus' = "returned"
    /\ UNCHANGED <<bfiles, bidx, nii_filenames, battempted, convVars, concVars>>

NextBatch == BSkip \/ BConvert \/ BRaise \/ BReturn

SpecBatch == InitBatch /\ [][NextBatch]_vars


(* ============================== claims =============================== *)
Terminal == pc \in {"done", "error"}

(* the reshape of 301-304 has produced the volume *)
HasVolume == IsBound(rawarray) /\ Len(Val(rawarray).shape) = 4

NoOutput == ~IsBound(img) /\ written = {}

(* C1: for every frame count f, slice count s dividing f, and rows, cols, *)
(* the vector of f*rows*cols samples becomes a volume of shape            *)
(* (cols, rows, s, f/s) whose voxel (col, row, slice, rep) is the sample  *)
(* at flat index rep*s*rows*cols + slice*rows*cols + row*cols + col; and  *)
(* with such inputs the reshape does not fail.                            *)
C1_VolumeReshape ==
    /\ HasVolume =>
         LET v == Val(rawarray)
             f == Val(frames)
             s == Val(slices)
             r == Val(rows)
             c == Val(cols)
         IN /\ f % s = 0
            /\ v.shape = <<c, r, s, f \div s>>
            /\ \A col \in 0..(c - 1), row \in 0..(r - 1), sl \in 0..(s - 1),
                  rep \in 0..((f \div s) - 1) :
                  At(v, <<col, row, sl, rep>>) =
                     rawfile_data[1 + rep * s * r * c + sl * r * c + row * c + col]
    /\ (pc = "error" /\ Val(err).name = "reshape") =>
         ~(/\ Val(frames) % Val(slices) = 0
           /\ Len(rawfile_data) = Val(frames) * Val(rows) * Val(cols))

C1_Witness ==
    /\ HasVolume
    /\ Val(rawarray).shape = <<2, 2, 2, 2>>
    /\ At(Val(rawarray), <<1, 0, 1, 1>>) = rawfile_data[1 + 8 + 4 + 0 + 1]

(* C2: after the line scan every optional per-frame sequence whose length *)
(* differs from that of the in-stack position numbers, shorter or longer, *)
(* is n times "NA" with none of its values kept, n the number of in-stack *)
(* position numbers; a sequence of that length is left as scanned.        *)
Scanned(k) == [i \in 1..Len(WithTag(dump, OptTag(k))) |-> WithTag(dump, OptTag(k))[i].vals]

PastFill == pc \notin {"idle", "scan", "fill"}

C2_SentinelFill ==
    PastFill =>
        \A k \in OptNames :
            /\ Len(optseq[k]) = Len(ISPnums)
            /\ Len(Scanned(k)) # Len(ISPnums) =>
                  \A i \in 1..Len(ISPnums) : optseq[k][i] = "NA"
            /\ Len(Scanned(k)) = Len(ISPnums) => optseq[k] = Scanned(k)

C2_Witness ==
    /\ pc = "ptbl"
    /\ Len(ISPnums) = 2
    /\ \E k1, k2, k3 \in OptNames :
          /\ Len(Scanned(k1)) = 3 /\ optseq[k1] = <<"NA", "NA">>
          /\ Len(Scanned(k2)) = 1 /\ optseq[k2] = <<"NA", "NA">>
          /\ optseq[k3] = <<"1", "2">>

(* C3 as stated: for every patient-position code outside HFS, FFS, HFP,   *)
(* and for a dump without the tag, with siap_fix true or false, the       *)
(* conversion ends in an error before an image is built or written.       *)
Supported == {"HFS", "FFS", "HFP"}
UnsupportedPatPos == ~IsBound(patpos) \/ Val(patpos) \notin Supported

Indivisible ==
    IsBound(frames) /\ IsBound(slices) /\ Val(frames) % Val(slices) # 0

C4_IndivisibleFrames ==
    (Indivisible /\ pc \notin {"raw", "reshape"}) =>
        /\ pc = "error"
        /\ ~HasVolume
        /\ NoOutput
        /\ \/ Val(err).line < 303
           \/ err = Raise("ValueError", "reshape", 303)
        /\ (IsBound(rows) /\ IsBound(cols)
            /\ Len(rawfile_data) = Val(frames) * Val(rows) * Val(cols)) =>
               err = Raise("ValueError", "reshape", 303)

C4_Witness ==
    /\ pc = "error"
    /\ err = Raise("ValueError", "reshape", 303)
    /\ Val(frames) = 3 /\ Val(slices) = 2
    /\ NoOutput

(* C5: when a required scalar tag (frame count, rows, columns,            *)
(* orientation cosines, pixel spacing) is on no line of the dump, the     *)
(* conversion ends, after the scan, in a fatal error and writes neither   *)
(* output file; the error is the unbound-name error naming the local of   *)
(* the absent tag read first, unless an earlier line raised.              *)
RequiredTag(name) ==
    CASE name = "frames" -> "(0028,0008)"
      [] name = "rows" -> "(0028,0010)"
      [] name = "cols" -> "(0028,0011)"
      [] name = "cosines" -> "(0020,0037)"
      [] name = "pixspac" -> "(0028,0030)"

Absent(name) == \A i \in 1..Len(dump) : dump[i].tag # RequiredTag(name)

UseOrder == <<"frames", "rows", "cols", "cosines", "pixspac">>
UseLine(name) == IF name \in {"frames", "rows", "cols"} THEN 302 ELSE 322

FirstAbsent ==
    UseOrder[CHOOSE i \in 1..5 :
                /\ Absent(UseOrder[i])
                /\ \A j \in 1..(i - 1) : ~Absent(UseOrder[j])]

C5_MissingRequiredTag ==
    \A name \in Required :
        (Absent(name) /\ pc # "idle") =>
            /\ pc # "done"
            /\ NoOutput
            /\ Terminal =>
                  /\ pc = "error"
                  /\ \/ Val(err).line < UseLine(FirstAbsent)
                     \/ err = Raise("UnboundLocalError", FirstAbsent, UseLine(FirstAbsent))

C5_Witness ==
    /\ pc = "error"
    /\ Absent("pixspac")
    /\ \A name \in Required \ {"pixspac"} : ~Absent(name)
    /\ err = Raise("UnboundLocalError", "pixspac", 322)
    /\ NoOutput

(* C6: with siap_fix false the affine given to the image is the base      *)
(* affine for every supported patient-position code: translation column   *)
(* (-fsp0, -fsp1, fsp2, 1), fsp the image position of the first frame     *)
(* whose in-stack position is 1, and columns (-c0*sCol, -c1*sCol,         *)
(* c2*sCol), (-c3*sRow, -c4*sRow, c5*sRow), (-step0, -step1, step2),      *)
(* step being (0, 0, -1) for one slice and (fsp - lsp)/(1 - slices)       *)
(* otherwise; no rotation is applied.                                     *)
FirstFrameAt(k) ==
    CHOOSE i \in 1..Len(ISPnums) :
        ISPnums[i] = k /\ \A j \in 1..(i - 1) : ISPnums[j] # k

Column(m, j) == <<m[1][j], m[2][j], m[3][j], m[4][j]>>

C6_BaseAffineWhenFixOff ==
    (IsBound(img) /\ ~args.siap_fix /\ Val(patpos) \in Supported) =>
        LET a == Val(img).affine
            c == Val(cosines)
            sRow == Val(pixspac)[1]
            sCol == Val(pixspac)[2]
            f == IPPs[FirstFrameAt(1)]
            l == IPPs[FirstFrameAt(Val(slices))]
            st == Val(step)
        IN /\ Column(a, 4) = <<RNeg(f[1]), RNeg(f[2]), f[3], RInt(1)>>
           /\ Column(a, 1) =
                 <<RNeg(RMul(c[1], sCol)), RNeg(RMul(c[2], sCol)), RMul(c[3], sCol), RInt(0)>>
           /\ Column(a, 2) =
                 <<RNeg(RMul(c[4], sRow)), RNeg(RMul(c[5], sRow)), RMul(c[6], sRow), RInt(0)>>
           /\ Column(a, 3) = <<RNeg(st[1]), RNeg(st[2]), st[3], RInt(0)>>
           /\ IF Val(slices) = 1
              THEN st = <<RInt(0), RInt(0), RInt(-1)>>
              ELSE \A i \in 1..3 :
                      RMul(st[i], RInt(1 - Val(slices))) = RSub(f[i], l[i])

C6_Witness ==
    /\ pc = "done"
    /\ ~args.siap_fix
    /\ Val(patpos) = "HFP"
    /\ Val(slices) = 3
    /\ Val(cosines) = CosinesB
    /\ Column(Val(img).affine, 4) = <<RInt(-1), RInt(-2), RInt(2), RInt(1)>>

(* C7 as stated: of two conversions run side by side, each reads the      *)
(* samples of its own input file and neither fails because of the other   *)
(* (a conversion run alone raises nothing in 292-299), also when both use *)
(* the same save_directory.                                               *)
C7_NoSharedState ==
    \A p \in Procs :
        /\ cerr[p] = NoErr
        /\ cread[p] # <<>> => cread[p] = <<p>>

(* C8 as stated: when the conversion of one discovered DICOM file fails,  *)
(* the traversal still attempts every remaining discovered file and the   *)
(* batch ends by returning the results of the files that converted.       *)
DicomFiles == {i \in 1..Len(bfiles) : is_dicom(bfiles[i].basename)}

C8_BatchContinues ==
    bstatus \in {"returned", "raised"} =>
        /\ bstatus = "returned"
        /\ battempted = DicomFiles
        /\ {nii_filenames[i] : i \in 1..Len(nii_filenames)} =
              {i \in DicomFiles : bfiles[i].converts}

(* C9 as stated: in every completed conversion the in-stack position      *)
(* numbers are exactly 1..slices, slices = max(in-stack position number). *)
C9_PositionsCoverSlices ==
    pc = "done" => {ISPnums[i] : i \in 1..Len(ISPnums)} = 1..Val(slices)

(* C10 as stated: with all six filename options disabled the conversion   *)
(* returns save_directory/<input basename>.nii.gz and writes              *)
(* <input basename>_ptbl.txt, the basename taken character for character. *)
NoNameOption ==
    /\ ~args.id_in_filename /\ ~args.date_in_filename /\ ~args.time_in_filename
    /\ ~args.protocol_in_filename /\ ~args.siap_in_filename
    /\ ~args.paravision_folder_in_filename

C10_BasenameFallback ==
    (pc = "done" /\ NoNameOption) =>
        LET base == Basename(args.dicom_filename).v
        IN /\ Val(nii_filename) = <<args.save_directory, base \o Chars_nii_gz>>
           /\ \E w \in written :
                 w.path = <<args.save_directory, base \o Chars_ptbl_txt>>

====
